---- MODULE Spec2Model ----
(***************************************************************************)
(* GD_Kenya_Cash_Study.py: the pipeline of main() as a state machine.      *)
(*                                                                         *)
(* Floats are fixed-point integers in units of 1e-5 (Scale = 1.0); NaN is  *)
(* a value outside the range of the data.  Values rounded to 4 decimals    *)
(* are records [nan, neg, mag] with mag in units of 1e-4, so that the      *)
(* float -0.0 (which prints as "-0.0000") is kept apart from 0.0.          *)
(* Rounding is numpy's round-half-to-even on the exact value; the binary   *)
(* representation error of a float is below the resolution of the model.   *)
(* Columns of the slimmed table that no later statement reads (surveyid,   *)
(* village, spillover, control_village, psy_index_z_miss0) are left out.   *)
(***************************************************************************)
EXTENDS Integers, Sequences, FiniteSets, TLC

VARIABLES pc, failedAt, file, df, dfs, avg_delta, masks, summary_delta,
          group_order, fig, cover_png, html

vars == <<pc, failedAt, file, df, dfs, avg_delta, masks, summary_delta,
          group_order, fig, cover_png, html>>

\* ---------------------------------------------------------------- bounds
MaxRows == 2

\* ---------------------------------------------------------------- values
Scale == 100000
NaN == 99999999
NA == -1

True3 == "True"
False3 == "False"
NA3 == "<NA>"

One == Scale

NaN4 == [nan |-> TRUE, neg |-> FALSE, mag |-> 0]

Abs(x) == IF x < 0 THEN -x ELSE x

\* ------------------------------------------------------------ the inputs
LastCol == 114

Flags(f, m, t, p, lu, mo, la, sm) ==
    [femaleres |-> f, maleres |-> m, treat |-> t, purecontrol |-> p,
     treatXlump |-> lu, treatXmonthly |-> mo, treatXlarge |-> la,
     treatXsmall |-> sm]

Profiles ==
    { Flags(One, 0, 0, 0, 0, 0, 0, 0),          \* spillover control, female
      Flags(One, 0, One, 0, One, 0, 0, One),    \* small transfer paid as a lump sum, female
      Flags(0, One, One, 0, 0, One, 0, 0),      \* monthly, male
      Flags(One, 0, One, 0, 0, 0, One, 0) }     \* large transfer, female

\* <<baseline, follow-up>>: deltas +0.1, +0.3, +0.2533, 0, -0.10044, missing
Scores ==
    { <<10000, 20000>>, <<5000, 35000>>, <<0, 25330>>, <<10000, 10000>>,
      <<20044, 10000>>, <<NaN, 10000>> }

WithScores(p, s) ==
    [femaleres |-> p.femaleres, maleres |-> p.maleres, treat |-> p.treat,
     purecontrol |-> p.purecontrol, treatXlump |-> p.treatXlump,
     treatXmonthly |-> p.treatXmonthly, treatXlarge |-> p.treatXlarge,
     treatXsmall |-> p.treatXsmall,
     psy_index_z0 |-> s[1], psy_index_z1 |-> s[2]]

\* a pure-control respondent (in none of the five groups); a monthly
\* recipient whose gender flags are empty; an untreated respondent whose
\* purecontrol flag is empty; a respondent without follow-up
OtherRows ==
    { WithScores(Flags(One, 0, 0, One, 0, 0, 0, 0), <<5000, 35000>>),
      WithScores(Flags(NaN, NaN, One, 0, 0, One, 0, 0), <<10000, 20000>>),
      WithScores(Flags(One, 0, 0, NaN, 0, 0, 0, 0), <<10000, 20000>>),
      WithScores(Flags(One, 0, 0, 0, 0, 0, 0, 0), <<10000, NaN>>) }

\* a flag column holding 0.5: astype('Int64') cannot cast it
BadRow == WithScores(Flags(50000, 0, 0, 0, 0, 0, 0, 0), <<0, 0>>)

RawRows ==
    { WithScores(p, s) : p \in Profiles, s \in Scores }
    \cup OtherRows \cup { BadRow }

Tables == UNION { [1..n -> RawRows] : n \in 0..MaxRows }

Files ==
    { [exists |-> FALSE, ncols |-> 0, rows |-> <<>>],
      [exists |-> TRUE, ncols |-> LastCol, rows |-> <<>>] }
    \cup { [exists |-> TRUE, ncols |-> LastCol + 1, rows |-> t] : t \in Tables }

\* ------------------------------------------------------- column typing
\* astype('Int64') of a float64 column: NaN becomes <NA>, an integral float
\* becomes the integer, any other float raises TypeError.
CanCastInt64(v) == v = NaN \/ v % Scale = 0

ToInt64(v) == IF v = NaN THEN NA ELSE v \div Scale

CanCastRow(r) ==
    /\ CanCastInt64(r.femaleres) /\ CanCastInt64(r.maleres)
    /\ CanCastInt64(r.treat) /\ CanCastInt64(r.purecontrol)
    /\ CanCastInt64(r.treatXlump) /\ CanCastInt64(r.treatXmonthly)
    /\ CanCastInt64(r.treatXlarge) /\ CanCastInt64(r.treatXsmall)

AsType(r) ==
    [femaleres |-> ToInt64(r.femaleres), maleres |-> ToInt64(r.maleres),
     treat |-> ToInt64(r.treat), purecontrol |-> ToInt64(r.purecontrol),
     treatXlump |-> ToInt64(r.treatXlump),
     treatXmonthly |-> ToInt64(r.treatXmonthly),
     treatXlarge |-> ToInt64(r.treatXlarge),
     treatXsmall |-> ToInt64(r.treatXsmall),
     psy_index_z0 |-> r.psy_index_z0, psy_index_z1 |-> r.psy_index_z1]

\* ------------------------------------------------------------ arithmetic
\* faulty variant: a missing operand is imputed as a delta of 0
Sub_MissingAsZero(a, b) == IF a = NaN \/ b = NaN THEN 0 ELSE a - b

\* float subtraction: NaN in either operand gives NaN
Sub(a, b) == IF a = NaN \/ b = NaN THEN NaN ELSE a - b

WithDelta(r) ==
    [femaleres |-> r.femaleres, maleres |-> r.maleres, treat |-> r.treat,
     purecontrol |-> r.purecontrol, treatXlump |-> r.treatXlump,
     treatXmonthly |-> r.treatXmonthly, treatXlarge |-> r.treatXlarge,
     treatXsmall |-> r.treatXsmall,
     psy_index_z0 |-> r.psy_index_z0, psy_index_z1 |-> r.psy_index_z1,
     delta_psy_index |-> Sub(r.psy_index_z1, r.psy_index_z0)]

RECURSIVE SumSeq(_)
SumSeq(s) == IF s = <<>> THEN 0 ELSE Head(s) + SumSeq(Tail(s))

IsPresent(v) == v # NaN

\* faulty variant: the mean of nothing is 0 instead of NaN
Mean_ZeroWhenEmpty(s) ==
    LET kept == SelectSeq(s, IsPresent)
    IN  IF kept = <<>> THEN [nan |-> FALSE, num |-> 0, den |-> 1]
        ELSE [nan |-> FALSE, num |-> SumSeq(kept), den |-> Len(kept)]

\* Series.mean(): skipna=True, NaN when nothing is left.  The mean is kept
\* exact, as the fraction num/den in units of 1e-5.
Mean(s) ==
    LET kept == SelectSeq(s, IsPresent)
    IN  IF kept = <<>> THEN [nan |-> TRUE, num |-> 0, den |-> 1]
        ELSE [nan |-> FALSE, num |-> SumSeq(kept), den |-> Len(kept)]

\* round(4): to the nearest multiple of 1e-4 (10 units), ties to even; the
\* sign is kept when the magnitude rounds to zero (-0.0).
Round4(m) ==
    IF m.nan THEN NaN4
    ELSE LET d == 10 * m.den
             a == Abs(m.num)
             q == a \div d
             r == a % d
             up == IF 2 * r > d THEN 1
                   ELSE IF 2 * r = d THEN q % 2 ELSE 0
         IN  [nan |-> FALSE, neg |-> m.num < 0, mag |-> q + up]

\* the numeric value of a rounded float, in units of 1e-4 (-0.0 = 0.0)
Val(x) == IF x.neg THEN -x.mag ELSE x.mag

\* ------------------------------------------------- masks and selection
\* Int64 column == scalar: a nullable boolean, <NA> where the cell is <NA>
Eq3(v, k) == IF v = NA THEN NA3 ELSE IF v = k THEN True3 ELSE False3

\* & of two nullable booleans (Kleene): False wins over <NA>
And3(a, b) ==
    IF a = False3 \/ b = False3 THEN False3
    ELSE IF a = NA3 \/ b = NA3 THEN NA3 ELSE True3

GroupLabels ==
    <<"Spillover Control", "Small Transfer", "Lump Sum", "Monthly",
      "Large Transfer">>

GenderLabels == <<"Female", "Male">>

group_defs(group, r) ==
    CASE group = "Spillover Control" ->
            And3(Eq3(r.treat, 0), Eq3(r.purecontrol, 0))
      [] group = "Small Transfer" -> Eq3(r.treatXsmall, 1)
      [] group = "Lump Sum" -> Eq3(r.treatXlump, 1)
      [] group = "Monthly" -> Eq3(r.treatXmonthly, 1)
      [] group = "Large Transfer" -> Eq3(r.treatXlarge, 1)

\* faulty variant: both genders read the femaleres column
gender_col_AlwaysFemale(gender_label, r) == r.femaleres

gender_col(gender_label, r) ==
    IF gender_label = "Female" THEN r.femaleres ELSE r.maleres

\* faulty variant: the gender test is dropped from the mask
Mask_GroupOnly(t, group, gender_label) ==
    [i \in 1..Len(t) |-> group_defs(group, t[i])]

\* mask = condition & (dfs[gender_col] == 1), one entry per row
Mask(t, group, gender_label) ==
    [i \in 1..Len(t) |->
        And3(group_defs(group, t[i]), Eq3(gender_col(gender_label, t[i]), 1))]

\* faulty variant: <NA> in the mask selects the row
Selects_NullAsTrue(b) == b # False3

\* boolean indexing with a nullable mask: <NA> selects nothing
Selects(b) == b = True3

\* dfs.loc[mask, 'delta_psy_index']
RECURSIVE Loc(_, _, _)
Loc(t, mask, i) ==
    IF i > Len(t) THEN <<>>
    ELSE (IF Selects(mask[i]) THEN <<t[i].delta_psy_index>> ELSE <<>>)
         \o Loc(t, mask, i + 1)

\* faulty variant: only the rows of the ten cells enter the global mean
Column_CellRowsOnly(t) ==
    LET in == { i \in 1..Len(t) :
                  \E g \in 1..Len(GroupLabels), s \in 1..Len(GenderLabels) :
                      Mask(t, GroupLabels[g], GenderLabels[s])[i] = True3 }
        keep(r) == \E i \in in : t[i] = r
    IN  [i \in 1..Len(SelectSeq(t, keep)) |->
            SelectSeq(t, keep)[i].delta_psy_index]

Column(t) == [i \in 1..Len(t) |-> t[i].delta_psy_index]

\* the 10 (group, gender) pairs in loop order: group outer, gender inner
Cells == 1..(Len(GroupLabels) * Len(GenderLabels))

CellGroup(c) == GroupLabels[((c - 1) \div Len(GenderLabels)) + 1]

CellGender(c) == GenderLabels[((c - 1) % Len(GenderLabels)) + 1]

Record(t, c) ==
    [Group |-> CellGroup(c), Gender |-> CellGender(c),
     Delta |-> Round4(Mean(Loc(t, Mask(t, CellGroup(c), CellGender(c)), 1)))]

\* ----------------------------------------------------- display strings
Digit(d) ==
    CASE d = 0 -> "0" [] d = 1 -> "1" [] d = 2 -> "2" [] d = 3 -> "3"
      [] d = 4 -> "4" [] d = 5 -> "5" [] d = 6 -> "6" [] d = 7 -> "7"
      [] d = 8 -> "8" [] d = 9 -> "9"

RECURSIVE NatStr(_)
NatStr(n) == IF n < 10 THEN Digit(n) ELSE NatStr(n \div 10) \o Digit(n % 10)

\* PctBreaks[k] is the least z >= 0, in units of 1e-4, at which
\* round((norm.cdf(z) - 0.5) * 100, 1) reaches k tenths; tabulated from
\* norm.cdf(z) = (1 + erf(z / sqrt(2))) / 2 for 0 <= z <= 0.35.
PctBreaks ==
    <<13, 38, 63, 88, 113, 138, 163, 189, 214, 239, 264, 289, 314, 339,
      364, 389, 414, 439, 464, 489, 515, 540, 565, 590, 615, 640, 665, 690,
      715, 741, 766, 791, 816, 841, 866, 892, 917, 942, 967, 992, 1017,
      1043, 1068, 1093, 1118, 1143, 1169, 1194, 1219, 1244, 1270, 1295,
      1320, 1346, 1371, 1396, 1422, 1447, 1472, 1498, 1523, 1548, 1574,
      1599, 1624, 1650, 1675, 1701, 1726, 1752, 1777, 1802, 1828, 1853,
      1879, 1904, 1930, 1956, 1981, 2007, 2032, 2058, 2083, 2109, 2135,
      2160, 2186, 2212, 2237, 2263, 2289, 2315, 2340, 2366, 2392, 2418,
      2443, 2469, 2495, 2521, 2547, 2573, 2599, 2625, 2651, 2677, 2703,
      2729, 2755, 2781, 2807, 2833, 2859, 2885, 2911, 2937, 2964, 2990,
      3016, 3042, 3068, 3095, 3121, 3147, 3174, 3200, 3226, 3253, 3279,
      3306, 3332, 3359, 3385, 3412, 3438, 3465, 3492>>

\* round((norm.cdf(z) - 0.5) * 100, 1) in tenths of a point, for |z| = mag;
\* norm.cdf is symmetric about 0 and no z on the 1e-4 grid is a rounding tie
PctTenths(mag) == Cardinality({ k \in 1..Len(PctBreaks) : PctBreaks[k] <= mag })

\* the rounded gain keeps the sign of z; norm.cdf(-0.0) - 0.5 is +0.0
RoundGain(z) ==
    [nan |-> z.nan, neg |-> Val(z) < 0, tenths |-> PctTenths(z.mag)]

\* faulty variant: f"{g} pp", a sign only when negative
Percentile_Gain_NoPlus(z) ==
    LET g == RoundGain(z)
    IN  IF g.nan THEN "nan pp"
        ELSE (IF g.neg THEN "-" ELSE "") \o NatStr(g.tenths \div 10)
             \o "." \o Digit(g.tenths % 10) \o " pp"

\* f"{g:+} pp": explicit sign, shortest repr of a float with one decimal
Percentile_Gain(z) ==
    LET g == RoundGain(z)
    IN  IF g.nan THEN "+nan pp"
        ELSE (IF g.neg THEN "-" ELSE "+") \o NatStr(g.tenths \div 10)
             \o "." \o Digit(g.tenths % 10) \o " pp"

\* f"{x:.4f}"
Delta_Display(x) ==
    IF x.nan THEN "nan"
    ELSE (IF x.neg THEN "-" ELSE "") \o NatStr(x.mag \div 10000) \o "."
         \o Digit((x.mag \div 1000) % 10) \o Digit((x.mag \div 100) % 10)
         \o Digit((x.mag \div 10) % 10) \o Digit(x.mag % 10)

WithStrings(r) ==
    [Group |-> r.Group, Gender |-> r.Gender, Delta |-> r.Delta,
     Percentile_Gain |-> Percentile_Gain(r.Delta),
     Delta_Display |-> Delta_Display(r.Delta)]

\* ------------------------------------------------------------ the sort
IsFemale(r) == r.Gender = "Female"

Perms(n) == { p \in [1..n -> 1..n] : \A i, j \in 1..n : p[i] = p[j] => i = j }

GroupPerms == Perms(Len(GroupLabels))

\* faulty variant: ascending=False
Sorted_Descending(rows, p) ==
    \A i, j \in 1..Len(rows) :
        i < j =>
            \/ rows[p[j]].Delta.nan /\ ~rows[p[i]].Delta.nan
            \/ rows[p[i]].Delta.nan /\ rows[p[j]].Delta.nan /\ p[i] < p[j]
            \/ /\ ~rows[p[i]].Delta.nan /\ ~rows[p[j]].Delta.nan
               /\ Val(rows[p[i]].Delta) >= Val(rows[p[j]].Delta)

\* sort_values(by='Delta'): kind='quicksort', na_position='last'.  The rows
\* with a Delta come first in ascending order; quicksort is not a stable
\* sort, so the order of equal keys is whatever the sort leaves.  The rows
\* without a Delta follow in their original order.
Sorted(rows, p) ==
    \A i, j \in 1..Len(rows) :
        i < j =>
            \/ rows[p[j]].Delta.nan /\ ~rows[p[i]].Delta.nan
            \/ rows[p[i]].Delta.nan /\ rows[p[j]].Delta.nan /\ p[i] < p[j]
            \/ /\ ~rows[p[i]].Delta.nan /\ ~rows[p[j]].Delta.nan
               /\ Val(rows[p[i]].Delta) <= Val(rows[p[j]].Delta)

\* ------------------------------------------------------------- titles
\* the title texts of the source; the dash of the first one is written "--"
rich_title ==
    "<span style='font-size:20px; color:#2E5E4E; font-family:Georgia; font-weight:bold;'>Cash That Heals</span>"
    \o "<span style='font-size:16px; color:#2E5E4E; font-family:Georgia; font-style:italic;'>&nbsp;&nbsp;&nbsp;How unconditional cash shaped mental health, by gender and treatment group</span><br>"
    \o "<span style='font-size:15px; color:#444444; font-family:Source Sans Pro;'>Across all transfer types, women experienced meaningful psychological gains--underscoring cash's potential to support female mental health, even when not explicitly targeted.</span>"

static_title == "Cash That Heals: Mental wellbeing by gender and transfer type"

html_title ==
    "<span style='font-size:20px; color:#2E5E4E; font-family:Georgia; font-weight:bold;'>Cash That Heals</span>"
    \o "<span style='font-size:16px; color:#2E5E4E; font-family:Georgia; font-style:italic;'>&nbsp;&nbsp;&nbsp;"
    \o "How unconditional cash shaped mental health, by gender and treatment group</span><br>"
    \o "<span style='font-size:15px; color:#444444; font-family:Source Sans Pro;'>"
    \o "Across all transfer types, women experienced meaningful psychological gains. Gender was not explicitly targeted in the study, however, and men's gains were larger.</span>"

NoFigure ==
    [built |-> FALSE, data |-> <<>>, category_orders |-> <<>>,
     vline |-> NaN4, title |-> ""]

NoFile == [written |-> FALSE, title |-> "", data |-> <<>>]

\* ------------------------------------------------------------ the run
Init ==
    /\ pc = "read_csv"
    /\ failedAt = "none"
    /\ file \in Files
    /\ df = <<>>
    /\ dfs = <<>>
    /\ avg_delta = NaN4
    /\ masks = <<>>
    /\ summary_delta = <<>>
    /\ group_order = <<>>
    /\ fig = NoFigure
    /\ cover_png = NoFile
    /\ html = NoFile

\* an uncaught exception: the interpreter exits, nothing else is touched
Raise(stage) ==
    /\ pc' = "failed"
    /\ failedAt' = stage
    /\ UNCHANGED <<file, df, dfs, avg_delta, masks, summary_delta,
                   group_order, fig, cover_png, html>>

\* 1: df = pd.read_csv('UCT_FINAL_CLEAN.tab', sep='\t')
ReadCsv ==
    /\ pc = "read_csv"
    /\ IF ~file.exists THEN Raise("read_csv")
       ELSE /\ df' = file.rows
            /\ pc' = "astype"
            /\ UNCHANGED <<failedAt, file, dfs, avg_delta, masks,
                           summary_delta, group_order, fig, cover_png, html>>

\* 2, 3: dfs = df.iloc[:, ...].copy(); dfs[col] = dfs[col].astype(dtype)
SlimAndType ==
    /\ pc = "astype"
    /\ IF file.ncols <= LastCol THEN Raise("iloc")
       ELSE IF \E i \in 1..Len(df) : ~CanCastRow(df[i]) THEN Raise("astype")
       ELSE /\ dfs' = [i \in 1..Len(df) |-> AsType(df[i])]
            /\ pc' = "delta"
            /\ UNCHANGED <<failedAt, file, df, avg_delta, masks,
                           summary_delta, group_order, fig, cover_png, html>>

\* 4: dfs['delta_psy_index'] = dfs['psy_index_z1'] - dfs['psy_index_z0']
DeriveDelta ==
    /\ pc = "delta"
    /\ dfs' = [i \in 1..Len(dfs) |-> WithDelta(dfs[i])]
    /\ pc' = "avg_delta"
    /\ UNCHANGED <<failedAt, file, df, avg_delta, masks, summary_delta,
                   group_order, fig, cover_png, html>>

\* avg_delta = dfs['delta_psy_index'].mean().round(4)
GlobalMean ==
    /\ pc = "avg_delta"
    /\ avg_delta' = Round4(Mean(Column(dfs)))
    /\ pc' = "summarize"
    /\ UNCHANGED <<failedAt, file, df, dfs, masks, summary_delta,
                   group_order, fig, cover_png, html>>

\* 5, 6: the loop over group_defs and the two genders, then round(4)
Summarize ==
    /\ pc = "summarize"
    /\ masks' = [c \in Cells |-> Mask(dfs, CellGroup(c), CellGender(c))]
    /\ summary_delta' = [c \in Cells |-> Record(dfs, c)]
    /\ pc' = "format"
    /\ UNCHANGED <<failedAt, file, df, dfs, avg_delta, group_order, fig,
                   cover_png, html>>

\* 7: the Percentile_Gain and Delta_Display columns
FormatStrings ==
    /\ pc = "format"
    /\ summary_delta' =
           [c \in 1..Len(summary_delta) |-> WithStrings(summary_delta[c])]
    /\ pc' = "sort"
    /\ UNCHANGED <<failedAt, file, df, dfs, avg_delta, masks, group_order,
                   fig, cover_png, html>>

\* group_order: the Female rows sorted by Delta, their Group column
SortGroups ==
    /\ pc = "sort"
    /\ LET female == SelectSeq(summary_delta, IsFemale)
       IN  \E p \in GroupPerms :
               /\ Sorted(female, p)
               /\ group_order' = [k \in 1..Len(female) |-> female[p[k]].Group]
    /\ pc' = "figure"
    /\ UNCHANGED <<failedAt, file, df, dfs, avg_delta, masks, summary_delta,
                   fig, cover_png, html>>

\* 8, 9, 10: px.bar, update_layout, update_traces, add_vline, annotations
BuildFigure ==
    /\ pc = "figure"
    /\ fig' = [built |-> TRUE, data |-> summary_delta,
               category_orders |-> group_order, vline |-> avg_delta,
               title |-> rich_title]
    /\ pc' = "static_title"
    /\ UNCHANGED <<failedAt, file, df, dfs, avg_delta, masks, summary_delta,
                   group_order, cover_png, html>>

\* faulty variant: the title is not replaced before the static export
SetStaticTitle_Skipped ==
    /\ pc = "static_title"
    /\ pc' = "write_image"
    /\ UNCHANGED <<failedAt, file, df, dfs, avg_delta, masks, summary_delta,
                   group_order, fig, cover_png, html>>

\* 11: fig.update_layout(title_text=static_title)
SetStaticTitle ==
    /\ pc = "static_title"
    /\ fig' = [fig EXCEPT !.title = static_title]
    /\ pc' = "write_image"
    /\ UNCHANGED <<failedAt, file, df, dfs, avg_delta, masks, summary_delta,
                   group_order, cover_png, html>>

\* faulty variant: a failed static export is swallowed and the run goes on
WriteImage_FailureSwallowed ==
    /\ pc = "write_image"
    /\ \/ UNCHANGED cover_png
       \/ cover_png' = [written |-> TRUE, title |-> fig.title,
                        data |-> fig.data]
    /\ pc' = "restore_title"
    /\ UNCHANGED <<failedAt, file, df, dfs, avg_delta, masks,
                   summary_delta, group_order, fig, html>>

\* fig.write_image("cover.png", ...): the image is rendered first, and the
\* file is written only when rendering succeeded
WriteImage ==
    /\ pc = "write_image"
    /\ \/ Raise("write_image")
       \/ /\ cover_png' = [written |-> TRUE, title |-> fig.title,
                           data |-> fig.data]
          /\ pc' = "restore_title"
          /\ UNCHANGED <<failedAt, file, df, dfs, avg_delta, masks,
                         summary_delta, group_order, fig, html>>

\* fig.update_layout(title=dict(text=..., x=0, xanchor='left'))
RestoreTitle ==
    /\ pc = "restore_title"
    /\ fig' = [fig EXCEPT !.title = html_title]
    /\ pc' = "write_html"
    /\ UNCHANGED <<failedAt, file, df, dfs, avg_delta, masks, summary_delta,
                   group_order, cover_png, html>>

\* fig.write_html("GD_DataViz_Example.html", ...)
WriteHtml ==
    /\ pc = "write_html"
    /\ \/ Raise("write_html")
       \/ /\ html' = [written |-> TRUE, title |-> fig.title,
                      data |-> fig.data]
          /\ pc' = "done"
          /\ UNCHANGED <<failedAt, file, df, dfs, avg_delta, masks,
                         summary_delta, group_order, fig, cover_png>>

Next ==
    \/ ReadCsv
    \/ SlimAndType
    \/ DeriveDelta
    \/ GlobalMean
    \/ Summarize
    \/ FormatStrings
    \/ SortGroups
    \/ BuildFigure
    \/ SetStaticTitle
    \/ WriteImage
    \/ RestoreTitle
    \/ WriteHtml

Spec == Init /\ [][Next]_vars

\* ======================================================== properties
\* How far the run has come; a run that failed in an export has been
\* through every earlier stage.
ExportFailed == pc = "failed" /\ failedAt \in {"write_image", "write_html"}

HasDelta ==
    \/ pc \in {"avg_delta", "summarize", "format", "sort", "figure",
               "static_title", "write_image", "restore_title", "write_html",
               "done"}
    \/ ExportFailed

HasAvg == HasDelta /\ pc # "avg_delta"

HasSummary == HasAvg /\ pc # "summarize"

HasStrings == HasSummary /\ pc # "format"

HasOrder == HasStrings /\ pc # "sort"

\* The statements below are written over df, the table as it was read,
\* with two-valued predicates: an empty flag satisfies nothing.
BothPresent(r) == r.psy_index_z0 # NaN /\ r.psy_index_z1 # NaN

RowDelta(r) == r.psy_index_z1 - r.psy_index_z0

InGroup(g, r) ==
    \/ g = "Spillover Control" /\ r.treat = 0 /\ r.purecontrol = 0
    \/ g = "Small Transfer" /\ r.treatXsmall = One
    \/ g = "Lump Sum" /\ r.treatXlump = One
    \/ g = "Monthly" /\ r.treatXmonthly = One
    \/ g = "Large Transfer" /\ r.treatXlarge = One

InGender(s, r) ==
    \/ s = "Female" /\ r.femaleres = One
    \/ s = "Male" /\ r.maleres = One

AllGroups ==
    {"Spillover Control", "Small Transfer", "Lump Sum", "Monthly",
     "Large Transfer"}

ExpectedCells ==
    << <<"Spillover Control", "Female">>, <<"Spillover Control", "Male">>,
       <<"Small Transfer", "Female">>, <<"Small Transfer", "Male">>,
       <<"Lump Sum", "Female">>, <<"Lump Sum", "Male">>,
       <<"Monthly", "Female">>, <<"Monthly", "Male">>,
       <<"Large Transfer", "Female">>, <<"Large Transfer", "Male">> >>

RECURSIVE DeltaSum(_)
DeltaSum(S) ==
    IF S = {} THEN 0
    ELSE LET i == CHOOSE i \in S : TRUE
         IN  RowDelta(df[i]) + DeltaSum(S \ {i})

\* x is the mean of the deltas of the rows S rounded to 4 decimals: missing
\* when S is empty, otherwise within half of 1e-4 of the exact mean
IsRoundedMean(x, S) ==
    IF S = {} THEN x.nan
    ELSE /\ ~x.nan
         /\ 2 * Abs(Val(x) * 10 * Cardinality(S) - DeltaSum(S))
                <= 10 * Cardinality(S)

\* x is the mean of the deltas of the rows S, exactly
IsExactMean(x, S) ==
    IF S = {} THEN x.nan
    ELSE ~x.nan /\ Val(x) * 10 * Cardinality(S) = DeltaSum(S)

Present == { i \in 1..Len(df) : BothPresent(df[i]) }

CellRows(g, s) ==
    { i \in Present : InGroup(g, df[i]) /\ InGender(s, df[i]) }

\* C1: the global mean delta is the mean of follow-up minus baseline over
\* all rows with both values present, whatever their group, rounded to 4
\* decimals.
C1_GlobalMean == HasAvg => IsRoundedMean(avg_delta, Present)

\* a row outside every group and a row inside one both count
C1_Witness ==
    /\ pc = "summarize"
    /\ ~avg_delta.nan
    /\ \E i, j \in Present :
          /\ \A g \in AllGroups : ~InGroup(g, df[i])
          /\ \E g \in AllGroups : InGroup(g, df[j])
          /\ RowDelta(df[i]) # RowDelta(df[j])

TenCells ==
    /\ Len(summary_delta) = 10
    /\ \A c \in 1..10 :
          /\ summary_delta[c].Group = ExpectedCells[c][1]
          /\ summary_delta[c].Gender = ExpectedCells[c][2]

\* C2 as stated: ten rows in loop order, each Delta the exact mean of the
\* deltas of the rows satisfying both predicates.
C2_ExactCellMean ==
    HasSummary =>
        /\ TenCells
        /\ \A c \in 1..10 :
              IsExactMean(summary_delta[c].Delta,
                          CellRows(ExpectedCells[c][1], ExpectedCells[c][2]))

\* C2 amended: ten rows in loop order, each Delta the mean of the deltas of
\* the rows satisfying both predicates, rounded to 4 decimals.
C2_RoundedCellMean ==
    HasSummary =>
        /\ TenCells
        /\ \A c \in 1..10 :
              IsRoundedMean(summary_delta[c].Delta,
                            CellRows(ExpectedCells[c][1], ExpectedCells[c][2]))

\* a cell with two rows, a cell with a row whose mean needs rounding
C2_Witness ==
    /\ pc = "format"
    /\ \E c \in 1..10 :
          LET S == CellRows(ExpectedCells[c][1], ExpectedCells[c][2])
          IN  Cardinality(S) = 2
              /\ ~IsExactMean(summary_delta[c].Delta, S)

C4_NoPartialOutput == pc = "failed" => (cover_png.written <=> html.written)

\* C4 amended: a failure ends the run at once, without retry; the HTML
\* document is never written before cover.png; a failure up to and
\* including the PNG export leaves neither file, a failure of the HTML
\* export leaves cover.png without the HTML document.
C4_AbortKeepsEarlierOutput ==
    /\ [](/\ html.written => cover_png.written
          /\ pc = "failed" /\ failedAt # "write_html" =>
                ~cover_png.written /\ ~html.written
          /\ pc = "failed" /\ failedAt = "write_html" =>
                cover_png.written /\ ~html.written)
    /\ [][pc # "failed"]_vars

\* the HTML export has failed after cover.png was written
C4_Witness == pc = "failed" /\ failedAt = "write_html" /\ cover_png.written

FemaleDelta(g) ==
    (CHOOSE r \in { summary_delta[c] : c \in 1..Len(summary_delta) } :
        r.Group = g /\ r.Gender = "Female").Delta

InputPos(g) == CHOOSE k \in 1..5 : ExpectedCells[2 * k - 1][1] = g

EachGroupOnce ==
    /\ Len(group_order) = 5
    /\ { group_order[k] : k \in 1..5 } = AllGroups

\* C5 as stated: the five labels, each once, ascending by the Female delta,
\* groups with equal Female deltas in input order; one order for both
\* genders' bars.
C5_StableOrder ==
    HasOrder =>
        /\ EachGroupOnce
        /\ \A i, j \in 1..5 :
              LET a == FemaleDelta(group_order[i])
                  b == FemaleDelta(group_order[j])
              IN  i < j /\ ~a.nan /\ ~b.nan =>
                      \/ Val(a) < Val(b)
                      \/ /\ Val(a) = Val(b)
                         /\ InputPos(group_order[i]) < InputPos(group_order[j])

\* C5 amended: the five labels, each once, in non-decreasing order of the
\* Female delta rounded to 4 decimals, groups without a Female delta last;
\* the order of groups with equal Female deltas is not fixed; one order
\* for both genders' bars.
C5_AscendingOrder ==
    /\ HasOrder =>
          /\ EachGroupOnce
          /\ \A i, j \in 1..5 :
                LET a == FemaleDelta(group_order[i])
                    b == FemaleDelta(group_order[j])
                IN  i < j =>
                        /\ a.nan => b.nan
                        /\ ~a.nan /\ ~b.nan => Val(a) <= Val(b)
    /\ fig.built => fig.category_orders = group_order

\* a group moved ahead of groups that precede it in input order, followed
\* by two groups with equal Female deltas in reverse input order
C5_Witness ==
    /\ pc = "done"
    /\ \E i, j, k \in 1..5 :
          /\ i < j /\ j < k
          /\ ~FemaleDelta(group_order[k]).nan
          /\ Val(FemaleDelta(group_order[i])) < Val(FemaleDelta(group_order[j]))
          /\ InputPos(group_order[i]) > InputPos(group_order[j])
          /\ Val(FemaleDelta(group_order[j])) = Val(FemaleDelta(group_order[k]))
          /\ InputPos(group_order[j]) > InputPos(group_order[k])

\* (norm.cdf(z) - 0.5) * 100 in units of 1e-8, for z = mag * 1e-4 >= 0,
\* from the series norm.cdf(z) = 1/2 + pdf(0) * (z - z^3/6 + z^5/40
\* - z^7/336 + ...) in fixed point; within 100000 units (0.001 points)
\* of the true value for z <= 0.35.
SeriesGain(mag) ==
    LET z2 == (mag * mag) \div 1000
        p1 == z2 \div 2
        p2 == (p1 * z2) \div (4 * Scale)
        p3 == (p2 * z2) \div (6 * Scale)
        S == Scale - (p1 \div 3) + (p2 \div 5) - (p3 \div 7)
    IN  ((mag * S) \div 10000) * 39894

GainString(neg, t) ==
    (IF neg THEN "-" ELSE "+") \o NatStr(t \div 10) \o "." \o Digit(t % 10)
    \o " pp"

\* s is the signed one-decimal string of a value within half a tenth of
\* (norm.cdf(z) - 0.5) * 100
IsGainOf(s, z) ==
    \E t \in 0..150 :
        /\ Abs(t * 10000000 - SeriesGain(z.mag)) <= 5000000 + 100000
        /\ s = GainString(Val(z) < 0, t)

FourDecimals(z) ==
    LET d == NatStr(10000 + (z.mag % 10000))
    IN  (IF z.neg THEN "-" ELSE "") \o NatStr(z.mag \div 10000) \o "."
        \o SubSeq(d, 2, 5)

\* C6: for every group mean z present, Percentile_Gain is
\* (norm.cdf(z) - 0.5) * 100 rounded to one decimal with an explicit sign
\* and the suffix " pp", and Delta_Display is z with exactly 4 decimals,
\* both taken from the mean rounded to 4 decimals; 0.0 gives "+0.0 pp",
\* 0.2533 gives "+10.0 pp", 0.2 gives "0.2000" and "+7.9 pp".
C6_Strings ==
    HasStrings =>
        \A c \in 1..Len(summary_delta) :
            LET r == summary_delta[c]
            IN  ~r.Delta.nan =>
                    /\ IsGainOf(r.Percentile_Gain, r.Delta)
                    /\ r.Delta_Display = FourDecimals(r.Delta)
                    /\ r.Delta.mag = 0 /\ ~r.Delta.neg =>
                          r.Percentile_Gain = "+0.0 pp"
                    /\ Val(r.Delta) = 2533 => r.Percentile_Gain = "+10.0 pp"
                    /\ Val(r.Delta) = 2000 =>
                          /\ r.Delta_Display = "0.2000"
                          /\ r.Percentile_Gain = "+7.9 pp"

\* Monthly / Male over two rows with deltas 0.1 and 0.3
C6_Witness ==
    /\ pc = "sort"
    /\ \E i, j \in CellRows("Monthly", "Male") :
          RowDelta(df[i]) = 10000 /\ RowDelta(df[j]) = 30000
    /\ summary_delta[8].Delta_Display = "0.2000"
    /\ summary_delta[8].Percentile_Gain = "+7.9 pp"

\* C7: deriving the delta adds exactly one column, follow-up minus
\* baseline row by row; the rows, their order and every other column are
\* as before, and a row with a missing operand gets a missing delta.
C7_DeltaColumn ==
    [][pc = "delta" =>
          /\ Len(dfs') = Len(dfs)
          /\ \A i \in 1..Len(dfs) :
                /\ DOMAIN dfs'[i] = DOMAIN dfs[i] \cup {"delta_psy_index"}
                /\ "delta_psy_index" \notin DOMAIN dfs[i]
                /\ \A col \in DOMAIN dfs[i] : dfs'[i][col] = dfs[i][col]
                /\ dfs'[i].delta_psy_index =
                      IF BothPresent(dfs[i])
                      THEN dfs[i].psy_index_z1 - dfs[i].psy_index_z0
                      ELSE NaN]_vars

\* the derived table holds a row with a delta other than 0 and a row
\* whose delta is missing
C7_Witness ==
    /\ pc = "avg_delta"
    /\ \E i, j \in 1..Len(dfs) :
          /\ dfs[i].delta_psy_index = NaN
          /\ dfs[j].delta_psy_index \notin {NaN, 0}

\* C8: cover.png is written under the plain abbreviated title and the
\* HTML document, after it, under the styled title set for it; the plain
\* title never reaches the HTML document and no styled title the PNG.
C8_Titles ==
    /\ cover_png.written =>
          /\ cover_png.title = static_title
          /\ cover_png.title \notin {rich_title, html_title}
    /\ html.written =>
          /\ html.title = html_title
          /\ html.title # static_title
          /\ cover_png.written

\* both files are written
C8_Witness ==
    /\ pc = "done"
    /\ cover_png.written /\ html.written
    /\ cover_png.title # html.title

Counted(i) == { c \in 1..Len(masks) : masks[c][i] = True3 }

GroupsOf(r) == { g \in AllGroups : InGroup(g, r) }

GendersOf(r) == { s \in {"Female", "Male"} : InGender(s, r) }

\* C9 as stated: every row satisfies at most one group predicate and
\* exactly one gender predicate, and is counted in at most one cell.
C9_Exclusive ==
    HasSummary =>
        \A i \in 1..Len(df) :
            /\ Cardinality(GroupsOf(df[i])) <= 1
            /\ Cardinality(GendersOf(df[i])) = 1
            /\ Cardinality(Counted(i)) <= 1

\* C9 amended: the aggregator does not enforce exclusive membership; a
\* row is counted in exactly the cells whose group predicate and gender
\* predicate it satisfies, so in at most one cell when it satisfies at
\* most one group predicate and at most one gender predicate.
C9_CountedWhereSatisfied ==
    HasSummary =>
        \A i \in 1..Len(df) :
            /\ Counted(i) =
                  { c \in 1..10 : /\ InGroup(ExpectedCells[c][1], df[i])
                                  /\ InGender(ExpectedCells[c][2], df[i]) }
            /\ Cardinality(Counted(i)) =
                  Cardinality(GroupsOf(df[i])) * Cardinality(GendersOf(df[i]))

\* a row counted in two cells next to a row counted in one
C9_Witness ==
    /\ pc = "format"
    /\ \E i, j \in 1..Len(df) :
          Cardinality(Counted(i)) = 2 /\ Cardinality(Counted(j)) = 1

\* the columns a cell's mask reads
MaskColumns(c) ==
    (CASE ExpectedCells[c][1] = "Spillover Control" -> {"treat", "purecontrol"}
       [] ExpectedCells[c][1] = "Small Transfer" -> {"treatXsmall"}
       [] ExpectedCells[c][1] = "Lump Sum" -> {"treatXlump"}
       [] ExpectedCells[c][1] = "Monthly" -> {"treatXmonthly"}
       [] ExpectedCells[c][1] = "Large Transfer" -> {"treatXlarge"})
    \cup (IF ExpectedCells[c][2] = "Female" THEN {"femaleres"}
          ELSE {"maleres"})

NullFlag(c, r) == \E col \in MaskColumns(c) : r[col] = NaN

\* C10: a row with an empty flag among the columns of a cell's mask is
\* never counted in that cell: the cell's Delta is the rounded mean of the
\* other matching rows, missing when there are none; the selection raises
\* no error; the row still counts in the global mean when its delta is
\* present.
C10_NullFlagNotCounted ==
    /\ HasSummary =>
          /\ \A c \in 1..10 :
                LET others == { i \in Present :
                                  /\ ~NullFlag(c, df[i])
                                  /\ c \in Counted(i) }
                IN  /\ \A i \in 1..Len(df) :
                          NullFlag(c, df[i]) => c \notin Counted(i)
                    /\ IsRoundedMean(summary_delta[c].Delta, others)
          /\ avg_delta.nan <=> Present = {}
    /\ failedAt # "summarize"

\* the only row with a delta has empty gender flags: it is in no cell and
\* in the global mean
C10_Witness ==
    /\ pc = "format"
    /\ Present # {}
    /\ \A i \in Present : df[i].femaleres = NaN /\ df[i].treatXmonthly = One
    /\ summary_delta[7].Delta.nan /\ summary_delta[8].Delta.nan
    /\ ~avg_delta.nan

====
